---- MODULE Spec2Model ----
(***************************************************************************)
(* Model of the two scripts of household-utility-dx:                       *)
(*   archive_desktop_images.py  (Desktop Archiver)                         *)
(*   extract_electric_bill.py   (Bill Extractor)                           *)
(*                                                                         *)
(* Text is modelled character by character: a string is a sequence of      *)
(* one-character strings.  Three characters cannot be written literally    *)
(* and are named: "bq" is the backquote, "dq" the double quote, "nl" the   *)
(* line feed.                                                              *)
(***************************************************************************)
EXTENDS Integers, Sequences, FiniteSets, TLC

VARIABLES
    \* ---- Desktop Archiver: the filesystem
    home_is_kana,    \* Path.home() = /Users/kana: VAULT_BASE lies inside the desktop
    desktop_exists,  \* desktop.exists()
    desktop,         \* entries directly in the desktop: name -> [kind, content]
    vault,           \* VAULT_BASE: "absent" | "dir" | "file"
    folders,         \* day -> [state, entries]: VAULT_BASE / Archive_<day>
    today,           \* datetime.now(), as a day number
    \* ---- Desktop Archiver: main()
    pc,              \* position in main()
    ret,             \* main()'s return value, -1 while none
    archive_day,     \* the day archive_name was formatted from
    pending,         \* entries of desktop.iterdir() not yet visited
    moved_count,
    \* ---- Desktop Archiver: history (what the claims are stated over)
    run,             \* number of the current run of main()
    log,             \* the moves attempted by the current run
    start,           \* filesystem when the current run started
    first,           \* the first run's outcome, once a second run started
    dropped,         \* a file appeared on the desktop between the runs
    \* ---- Bill Extractor
    bill,            \* state of extract_electric_bill.main()
    \* ---- Bill Extractor: one response through the per-image pipeline
    parse

archVars == <<home_is_kana, desktop_exists, desktop, vault, folders, today, pc, ret,
              archive_day, pending, moved_count, run, log, start, first, dropped>>
vars == <<archVars, bill, parse>>

(***************************************************************************)
(* Bounds of the model.                                                    *)
(***************************************************************************)
MaxDesktopEntries == 3   \* entries on the desktop, single-run specification
MaxArchived == 2         \* entries already in the dated folder
MaxRerunEntries == 1     \* entries on the desktop, two-run specification
MaxRerunArchived == 1    \* entries already in the dated folder, two-run specification
MaxDay == 2              \* days the clock can show

(***************************************************************************)
(* Characters and strings.                                                 *)
(***************************************************************************)
UPPER == <<"A","B","C","D","E","F","G","H","I","J","K","L","M",
           "N","O","P","Q","R","S","T","U","V","W","X","Y","Z">>
LOWER == <<"a","b","c","d","e","f","g","h","i","j","k","l","m",
           "n","o","p","q","r","s","t","u","v","w","x","y","z">>
DIGITS == <<"0","1","2","3","4","5","6","7","8","9">>

\* str.lower(), one character
LowerChar(c) ==
    IF \E i \in 1..Len(UPPER) : UPPER[i] = c
    THEN LOWER[CHOOSE i \in 1..Len(UPPER) : UPPER[i] = c]
    ELSE c

\* str.lower()
lower(s) == [i \in 1..Len(s) |-> LowerChar(s[i])]

\* str.rfind(ch), 1-based; 0 when absent
rfind(s, ch) ==
    IF \E i \in 1..Len(s) : s[i] = ch
    THEN CHOOSE i \in 1..Len(s) : s[i] = ch /\ \A j \in (i+1)..Len(s) : s[j] # ch
    ELSE 0

\* PurePath.suffix: from the last dot, unless the dot is first or last
suffix(name) ==
    LET i == rfind(name, ".")
    IN  IF 1 < i /\ i < Len(name) THEN SubSeq(name, i, Len(name)) ELSE <<>>

\* PurePath.stem
stem(name) ==
    LET i == rfind(name, ".")
    IN  IF 1 < i /\ i < Len(name) THEN SubSeq(name, 1, i - 1) ELSE name

\* str(n) of the f-string, n >= 0
RECURSIVE Decimal(_)
Decimal(n) ==
    IF n < 10 THEN <<DIGITS[n + 1]>>
    ELSE Decimal(n \div 10) \o <<DIGITS[(n % 10) + 1]>>

(***************************************************************************)
(* Desktop Archiver.                                                       *)
(***************************************************************************)
IMAGE_EXTENSIONS ==
    { <<".","p","n","g">>, <<".","j","p","g">>, <<".","j","p","e","g">> }

VAULT_NAME ==
    <<"I","n","s","p","i","r","a","t","i","o","n","_","V","a","u","l","t">>

\* path.suffix.lower() in IMAGE_EXTENSIONS
IsImageAnyCase(name) == suffix(name) \in IMAGE_EXTENSIONS
IsImage(name) == lower(suffix(name)) \in IMAGE_EXTENSIONS

\* f"{stem}_{n}{suffix}"
Suffixed(name, n) == stem(name) \o <<"_">> \o Decimal(n) \o suffix(name)

\* the while loop: the first stem_n.suffix, from n, that does not exist
RECURSIVE FreeSuffixed(_, _, _)
FreeSuffixed(name, n, taken) ==
    IF Suffixed(name, n) \in taken
    THEN FreeSuffixed(name, n + 1, taken)
    ELSE Suffixed(name, n)

DestNameNoCheck(name, taken) == name
DestNameSkipOne(name, taken) ==
    IF name \in taken THEN FreeSuffixed(name, 2, taken) ELSE name
\* dest = archive_path / path.name, renamed while dest.exists()
DestName(name, taken) ==
    IF name \in taken THEN FreeSuffixed(name, 1, taken) ELSE name

\* names the desktop and a dated folder can hold in the model
N_a_png == <<"a",".","p","n","g">>
N_a_1_png == <<"a","_","1",".","p","n","g">>
N_b_JPG == <<"b",".","J","P","G">>
N_c_jpeg == <<"c",".","j","p","e","g">>
N_n_txt == <<"n",".","t","x","t">>
N_dot_png == <<".","p","n","g">>
N_d_png == <<"d",".","p","n","g">>

File(origin, name) == [kind |-> "file", content |-> <<origin, name>>]
Dir(origin, name) == [kind |-> "dir", content |-> <<origin, name>>]

\* what may lie on the desktop: image files, an upper-case extension, a text
\* file, a dot file, and a directory whose name ends in .png
DesktopUniverse ==
    (N_a_png :> File("desk", N_a_png)) @@ (N_a_1_png :> File("desk", N_a_1_png))
    @@ (N_b_JPG :> File("desk", N_b_JPG)) @@ (N_c_jpeg :> File("desk", N_c_jpeg))
    @@ (N_n_txt :> File("desk", N_n_txt)) @@ (N_dot_png :> File("desk", N_dot_png))
    @@ (N_d_png :> Dir("desk", N_d_png))

\* what may already lie in the dated folder
ArchivedUniverse ==
    (N_a_png :> File("old", N_a_png)) @@ (N_a_1_png :> File("old", N_a_1_png))
    @@ (N_b_JPG :> Dir("old", N_b_JPG))

Restrict(f, S) == [x \in S |-> f[x]]
Empty == <<>>

Days == 1..MaxDay
NoFolder == [state |-> "absent", entries |-> Empty]

\* Path.mkdir(exist_ok=...): the path's state afterwards, or the exception
MkdirNotExistOk(state) ==
    IF state = "absent" THEN [raised |-> FALSE, state |-> "dir"]
    ELSE [raised |-> TRUE, state |-> state]
Mkdir(state) ==
    CASE state = "absent" -> [raised |-> FALSE, state |-> "dir"]
      [] state = "dir"    -> [raised |-> FALSE, state |-> "dir"]
      [] OTHER            -> [raised |-> TRUE, state |-> state]

\* Path.exists()
exists_always(flag) == TRUE
exists(flag) == flag

\* Path.is_file()
is_file(d, name) == name \in DOMAIN d /\ d[name].kind = "file"

\* the outcomes of shutil.move(src, dest) onto a free name: the rename (or the
\* copy and removal) succeeds; it raises OSError and changes nothing; or the
\* copy across filesystems succeeds and the removal raises OSError
MoveOutcomes == {"moved", "failed", "copied"}

Snapshot == [desktop_exists |-> desktop_exists, desktop |-> desktop,
             vault |-> vault, folders |-> folders, today |-> today]

ArchInitWith(maxDesk, maxArch) ==
    /\ home_is_kana \in BOOLEAN
    /\ desktop_exists \in BOOLEAN
    /\ \E S \in SUBSET DOMAIN DesktopUniverse :
          /\ Cardinality(S) <= maxDesk
          /\ ~desktop_exists => S = {}
          /\ desktop = Restrict(DesktopUniverse, S)
    /\ vault \in {"absent", "dir", "file"}
    /\ (home_is_kana /\ ~desktop_exists) => vault = "absent"
    /\ today = 1
    /\ \E st \in {"absent", "dir", "file"}, S \in SUBSET DOMAIN ArchivedUniverse :
          /\ Cardinality(S) <= maxArch
          /\ vault # "dir" => st = "absent"
          /\ st # "dir" => S = {}
          /\ folders = [d \in Days |->
                          IF d = 1
                          THEN [state |-> st, entries |-> Restrict(ArchivedUniverse, S)]
                          ELSE NoFolder]
    /\ pc = "idle"
    /\ ret = -1
    /\ archive_day = 0
    /\ pending = {}
    /\ moved_count = 0
    /\ run = 1
    /\ log = {}
    /\ start = [desktop_exists |-> desktop_exists, desktop |-> desktop,
                vault |-> vault, folders |-> folders, today |-> today]
    /\ first = [pc |-> "none"]
    /\ dropped = {}

\* lines 33-37: desktop = get_desktop_path(); if not desktop.exists(): return 1
CheckDesktop ==
    /\ pc = "idle"
    /\ start' = Snapshot
    /\ IF exists(desktop_exists)
       THEN pc' = "mkdir" /\ ret' = ret
       ELSE pc' = "done" /\ ret' = 1
    /\ UNCHANGED <<home_is_kana, desktop_exists, desktop, vault, folders, today,
                   archive_day, pending, moved_count, run, log, first, dropped, bill, parse>>

\* lines 39-42: the two mkdir calls; either raises out of main()
MakeArchive ==
    /\ pc = "mkdir"
    /\ archive_day' = today
    /\ LET v == Mkdir(vault)
           f == Mkdir(folders[today].state)
       IN  IF v.raised
           THEN pc' = "raised" /\ UNCHANGED <<vault, folders>>
           ELSE /\ vault' = v.state
                /\ IF f.raised
                   THEN pc' = "raised" /\ UNCHANGED folders
                   ELSE /\ pc' = "list"
                        /\ folders' = [folders EXCEPT ![today].state = f.state]
    /\ UNCHANGED <<home_is_kana, desktop_exists, desktop, today, ret, pending,
                   moved_count, run, log, start, first, dropped, bill, parse>>

\* lines 44-45: moved_count = 0; desktop.iterdir() lists the directory once
ListDesktop ==
    /\ pc = "list"
    /\ moved_count' = 0
    /\ pending' = DOMAIN desktop \cup (IF home_is_kana THEN {VAULT_NAME} ELSE {})
    /\ log' = {}
    /\ pc' = "scan"
    /\ UNCHANGED <<home_is_kana, desktop_exists, desktop, vault, folders, today, ret,
                   archive_day, run, start, first, dropped, bill, parse>>

\* what the loop does after a move raised OSError: the next entry
AfterFailureAbort(rest) == {}
AfterFailure(rest) == rest


\* lines 45-62: one iteration of the loop, in the order iterdir() yields
ScanStep(name) ==
    /\ pc = "scan"
    /\ name \in pending
    /\ IF is_file(desktop, name) /\ IsImage(name)
       THEN LET taken == DOMAIN folders[archive_day].entries
                dest == DestName(name, taken)
            IN  \E outcome \in MoveOutcomes :
                  /\ desktop' = IF outcome = "moved"
                                THEN Restrict(desktop, DOMAIN desktop \ {name})
                                ELSE desktop
                  /\ folders' = IF outcome = "failed"
                                THEN folders
                                ELSE [folders EXCEPT ![archive_day].entries =
                                        (dest :> desktop[name]) @@ @]
                  /\ moved_count' = IF outcome = "moved"
                                    THEN moved_count + 1
                                    ELSE moved_count
                  /\ pending' = IF outcome = "moved"
                                THEN pending \ {name}
                                ELSE AfterFailure(pending \ {name})
                  /\ log' = log \cup {[name |-> name, dest |-> dest,
                                       outcome |-> outcome, taken |-> taken,
                                       entry |-> desktop[name]]}
       ELSE /\ pending' = pending \ {name}
            /\ UNCHANGED <<desktop, folders, moved_count, log>>
    /\ UNCHANGED <<home_is_kana, desktop_exists, vault, today, pc, ret, archive_day,
                   run, start, first, dropped, bill, parse>>

\* lines 64-68: the summary line; return 0
Summary ==
    /\ pc = "scan"
    /\ pending = {}
    /\ pc' = "done"
    /\ ret' = 0
    /\ UNCHANGED <<home_is_kana, desktop_exists, desktop, vault, folders, today,
                   archive_day, pending, moved_count, run, log, start, first, dropped,
                   bill, parse>>

BillIdle == bill = [pc |-> "unused"]
ParseIdle == parse = [pc |-> "unused"]

ArchInit == ArchInitWith(MaxDesktopEntries, MaxArchived) /\ BillIdle /\ ParseIdle
ArchNext ==
    \/ CheckDesktop
    \/ MakeArchive
    \/ ListDesktop
    \/ \E name \in pending : ScanStep(name)
    \/ Summary
SpecArch == ArchInit /\ [][ArchNext]_vars

(***************************************************************************)
(* Two runs of main(), and what the cron/launchd schedule lets happen      *)
(* between them: the date changes, a new file is put on the desktop.       *)
(***************************************************************************)
DropNames == {N_a_png, N_n_txt}

\* the scheduler starts main() again
Rerun ==
    /\ pc \in {"done", "raised"}
    /\ run = 1
    /\ run' = 2
    /\ first' = [pc |-> pc, ret |-> ret, day |-> archive_day, folders |-> folders,
                 moved_count |-> moved_count]
    /\ pc' = "idle"
    /\ ret' = -1
    /\ pending' = {}
    /\ log' = {}
    /\ start' = Snapshot
    /\ UNCHANGED <<home_is_kana, desktop_exists, desktop, vault, folders, today,
                   archive_day, moved_count, dropped, bill, parse>>

\* midnight passes between the runs
Midnight ==
    /\ pc \in {"done", "raised"}
    /\ run = 1
    /\ today < MaxDay
    /\ today' = today + 1
    /\ UNCHANGED <<home_is_kana, desktop_exists, desktop, vault, folders, pc, ret,
                   archive_day, pending, moved_count, run, log, start, first, dropped,
                   bill, parse>>

\* the user saves a file to the desktop between the runs
DropFile(name) ==
    /\ pc \in {"done", "raised"}
    /\ run = 1
    /\ desktop_exists
    /\ dropped = {}
    /\ name \in DropNames \ DOMAIN desktop
    /\ desktop' = (name :> File("new", name)) @@ desktop
    /\ dropped' = {name}
    /\ UNCHANGED <<home_is_kana, desktop_exists, vault, folders, today, pc, ret,
                   archive_day, pending, moved_count, run, log, start, first,
                   bill, parse>>

RerunInit == ArchInitWith(MaxRerunEntries, MaxRerunArchived) /\ BillIdle /\ ParseIdle
RerunNext ==
    \/ CheckDesktop
    \/ MakeArchive
    \/ ListDesktop
    \/ \E name \in pending : ScanStep(name)
    \/ Summary
    \/ Rerun
    \/ Midnight
    \/ \E name \in DropNames : DropFile(name)
SpecRerun == RerunInit /\ [][RerunNext]_vars

(***************************************************************************)
(* Desktop Archiver: the claims.                                           *)
(***************************************************************************)
\* the dated folder main() archives into during the current run
Archive == folders[archive_day].entries

\* a name with an extension in {.png, .jpg, .jpeg}, compared case-insensitively,
\* stated on the characters of the name
EndsWith(n, e) ==
    Len(n) > Len(e) /\ lower(SubSeq(n, Len(n) - Len(e) + 1, Len(n))) = e
HasImageExtension(n) ==
    \E e \in {<<".","p","n","g">>, <<".","j","p","g">>, <<".","j","p","e","g">>} :
        EndsWith(n, e)

\* the image files the desktop held when the run started
StartImages ==
    {n \in DOMAIN start.desktop :
        start.desktop[n].kind = "file" /\ HasImageExtension(n)}

\* the names under which the dated folder holds the content e
HeldAs(e) == {d \in DOMAIN Archive : Archive[d] = e}

\* everything on the desktop at the start that is not an image file is still there
OthersUntouched ==
    \A n \in DOMAIN start.desktop \ StartImages :
        n \in DOMAIN desktop /\ desktop[n] = start.desktop[n]

\* C1 as stated: after main() returns, every image file that was directly in the
\* source is exactly once in the dated folder and no longer in the source; every
\* other file and every subdirectory of the source is still there, unchanged.
C1_Original ==
    (pc = "done" /\ ret = 0) =>
        /\ \A n \in StartImages :
              /\ n \notin DOMAIN desktop
              /\ Cardinality(HeldAs(start.desktop[n])) = 1
        /\ OthersUntouched

\* C1 amended: after main() returns 0, every image file that was directly in the
\* source was attempted once; one whose move succeeded is exactly once in the
\* dated folder and no longer in the source; one whose move raised is still in
\* the source, unchanged, and at most once in the dated folder; every other file
\* and every subdirectory of the source is still there, neither entered nor
\* moved (the vault, when it lies in the source, gains the archived files).
C1_Amended ==
    (pc = "done" /\ ret = 0) =>
        /\ \A n \in StartImages :
              /\ Cardinality({r \in log : r.name = n}) = 1
              /\ \A r \in log : r.name = n =>
                    IF r.outcome = "moved"
                    THEN /\ n \notin DOMAIN desktop
                         /\ Cardinality(HeldAs(start.desktop[n])) = 1
                    ELSE /\ n \in DOMAIN desktop
                         /\ desktop[n] = start.desktop[n]
                         /\ Cardinality(HeldAs(start.desktop[n])) <= 1
        /\ OthersUntouched
        /\ \A r \in log : r.name \in StartImages

C1_Witness ==
    /\ pc = "done" /\ ret = 0
    /\ \E r \in log : r.outcome = "moved" /\ r.name = N_b_JPG
    /\ N_n_txt \in DOMAIN desktop
    /\ N_d_png \in DOMAIN desktop

\* C2: no step of main() removes or changes an entry of a dated folder, and
\* every move lands on a name that was free in the dated folder just before it.
C2_NeverOverwrites ==
    [][ /\ \A d \in Days : \A n \in DOMAIN folders[d].entries :
              /\ n \in DOMAIN folders'[d].entries
              /\ folders'[d].entries[n] = folders[d].entries[n]
        /\ \A r \in log' \ log : r.dest \notin DOMAIN folders[archive_day].entries
      ]_vars

C2_Witness ==
    \E r \in log : /\ r.outcome = "moved"
                    /\ r.name \in DOMAIN start.folders[archive_day].entries
                    /\ Cardinality(DOMAIN Archive) = 3

\* C3: a moved image whose name exists in the dated folder gets stem_N.ext with
\* N the smallest integer >= 1 whose name is free there; otherwise it keeps its
\* name.  With a.png archived and a.png, n.txt on the desktop, the folder ends
\* with the old a.png and the new a_1.png, and n.txt is untouched.
C3_CollisionNaming ==
    /\ \A r \in log :
          IF r.name \in r.taken
          THEN \E N \in 1..(Cardinality(r.taken) + 1) :
                  /\ r.dest = Suffixed(r.name, N)
                  /\ r.dest \notin r.taken
                  /\ \A m \in 1..(N - 1) : Suffixed(r.name, m) \in r.taken
          ELSE r.dest = r.name
    /\ ( /\ pc = "done" /\ ret = 0
         /\ DOMAIN start.desktop = {N_a_png, N_n_txt}
         /\ start.folders[archive_day].state = "dir"
         /\ DOMAIN start.folders[archive_day].entries = {N_a_png}
         /\ \A r \in log : r.outcome = "moved" )
       => /\ DOMAIN Archive = {N_a_png, N_a_1_png}
          /\ Archive[N_a_png] = File("old", N_a_png)
          /\ Archive[N_a_1_png] = File("desk", N_a_png)
          /\ DOMAIN desktop = {N_n_txt}
          /\ desktop[N_n_txt] = File("desk", N_n_txt)

C3_Witness ==
    \E r \in log : /\ r.outcome = "moved"
                    /\ r.name = N_a_png
                    /\ r.dest = <<"a","_","2",".","p","n","g">>

\* C4: a move that raises is caught: the file stays in the source as it was and
\* is not counted; every image of the scan is attempted, once; the run ends
\* with the summary and returns 0.
C4_FailureIsolated ==
    /\ \A r \in log : r.outcome # "moved" =>
          r.name \in DOMAIN desktop /\ desktop[r.name] = r.entry
    /\ pc \in {"scan", "done"} =>
          moved_count = Cardinality({r \in log : r.outcome = "moved"})
    /\ \A r, q \in log : r.name = q.name => r = q
    /\ pc = "scan" => \A n \in StartImages : n \in pending \/ \E r \in log : r.name = n
    /\ (pc = "done" /\ ret = 0) => \A n \in StartImages : \E r \in log : r.name = n
    /\ (pc = "done" /\ log # {}) => ret = 0
    /\ pc = "raised" => log = {}

C4_Witness ==
    /\ pc = "done" /\ ret = 0
    /\ \E r \in log : r.outcome = "failed"
    /\ \E r \in log : r.outcome = "copied"
    /\ \E r \in log : r.outcome = "moved"

\* C5: main() returns 1 exactly when the desktop does not exist, and then
\* nothing on the filesystem has changed; every other completed run returns 0.
C5_ExitStatus ==
    /\ pc = "done" =>
          /\ ret \in {0, 1}
          /\ ret = 1 <=> ~start.desktop_exists
          /\ ret = 1 => /\ vault = start.vault
                        /\ folders = start.folders
                        /\ desktop = start.desktop
                        /\ desktop_exists = start.desktop_exists
    /\ pc # "done" => ret = -1

C5_Witness == pc = "done" /\ ret = 1 /\ vault = "absent" /\ ~home_is_kana

\* number of dated folders under the vault
DatedFolders(f) == Cardinality({d \in Days : f[d].state = "dir"})

\* the second run started on the day the first run archived into, after the
\* first run returned 0
SecondRunSameDay ==
    run = 2 /\ first.pc = "done" /\ first.ret = 0 /\ first.day = start.today

\* C10 as stated: the second run of a day does not raise and creates no second
\* dated folder; started with no new image file on the desktop, it moves
\* nothing, leaves the dated folder as the first run left it, and returns 0.
C10_Original ==
    SecondRunSameDay =>
        /\ pc # "raised"
        /\ pc \in {"list", "scan", "done"} =>
              DatedFolders(folders) = DatedFolders(first.folders)
        /\ (pc = "done" /\ \A n \in dropped : ~HasImageExtension(n)) =>
              /\ moved_count = 0
              /\ folders = first.folders
              /\ ret = 0

\* C10 amended: the same, for a second run started with no image file on the
\* desktop at all (none new, and none left behind by a move that raised).
C10_Amended ==
    SecondRunSameDay =>
        /\ pc # "raised"
        /\ pc \in {"list", "scan", "done"} =>
              /\ DatedFolders(folders) = DatedFolders(first.folders)
              /\ folders[today].state = "dir"
        /\ (pc = "done" /\ StartImages = {}) =>
              /\ moved_count = 0
              /\ log = {}
              /\ folders = first.folders
              /\ ret = 0

C10_Witness ==
    /\ SecondRunSameDay
    /\ pc = "done"
    /\ StartImages = {}
    /\ first.moved_count > 0
    /\ dropped # {}

(***************************************************************************)
(* Bill Extractor: Python values.                                          *)
(*   None            [none |-> TRUE]       True/False   [bool |-> b]       *)
(*   int             [num |-> n]           str          [str |-> chars]    *)
(*   list            [arr |-> sequence]    dict         [obj |-> function] *)
(***************************************************************************)
None == [none |-> TRUE]
Bool(b) == [bool |-> b]
Num(n) == [num |-> n]
Str(s) == [str |-> s]
Arr(a) == [arr |-> a]
Obj(f) == [obj |-> f]
IsNone(v) == DOMAIN v = {"none"}
IsDict(v) == DOMAIN v = {"obj"}

\* the characters str.strip() and the pattern \s take for white space
WHITESPACE == {" ", "nl", "tab", "cr", "ff", "vt"}
\* the characters the json module skips between tokens
JSON_WS == {" ", "nl", "tab", "cr"}
\* the characters json.loads rejects inside a string (strict): below U+0020
CONTROL == {"nl", "tab", "cr", "ff", "vt"}

\* s[i:j] of Python for the 1-based positions i .. j-1
Slice(s, i, j) == SubSeq(s, i, j - 1)

\* whether s holds the characters of w at position i
At(s, i, w) ==
    /\ i >= 1
    /\ i + Len(w) - 1 <= Len(s)
    /\ \A k \in 1..Len(w) : s[i + k - 1] = w[k]

\* the first position >= i of s that lies outside the set ws; Len(s)+1 if none
Skip(s, i, ws) ==
    IF \E j \in i..Len(s) : s[j] \notin ws
    THEN CHOOSE j \in i..Len(s) : s[j] \notin ws /\ \A k \in i..(j - 1) : s[k] \in ws
    ELSE Len(s) + 1

\* str.strip()
strip(s) ==
    LET b == Skip(s, 1, WHITESPACE)
    IN  IF b > Len(s) THEN <<>>
        ELSE LET e == CHOOSE j \in b..Len(s) :
                          s[j] \notin WHITESPACE /\ \A k \in (j + 1)..Len(s) : s[k] \in WHITESPACE
             IN  SubSeq(s, b, e)

(***************************************************************************)
(* json.loads, on the characters the model's responses are written in:     *)
(* objects, arrays, strings without escapes, integers, null, true, false.  *)
(* A parse yields [ok, val, next]: next is the position after the value.   *)
(***************************************************************************)
Bad == [ok |-> FALSE, val |-> None, next |-> 0]
Good(v, n) == [ok |-> TRUE, val |-> v, next |-> n]

DigitValue(c) == (CHOOSE k \in 1..10 : DIGITS[k] = c) - 1
IsDigit(c) == \E k \in 1..10 : DIGITS[k] = c

RECURSIVE IntOf(_)
IntOf(ds) ==
    IF Len(ds) = 0 THEN 0
    ELSE 10 * IntOf(SubSeq(ds, 1, Len(ds) - 1)) + DigitValue(ds[Len(ds)])

\* py_scanstring: from the opening quote at i to the next quote
ParseString(s, i) ==
    IF \E j \in (i + 1)..Len(s) : s[j] = "dq"
    THEN LET j == CHOOSE j \in (i + 1)..Len(s) :
                      s[j] = "dq" /\ \A k \in (i + 1)..(j - 1) : s[k] # "dq"
             body == SubSeq(s, i + 1, j - 1)
         IN  IF \E k \in 1..Len(body) : body[k] \in CONTROL
             THEN Bad
             ELSE Good(Str(body), j + 1)
    ELSE Bad

\* NUMBER_RE, integer part: -?(0|[1-9][0-9]*)
ParseNumber(s, i) ==
    LET neg == s[i] = "-"
        b == IF neg THEN i + 1 ELSE i
    IN  IF b > Len(s) \/ ~IsDigit(s[b]) THEN Bad
        ELSE LET e == IF s[b] = "0" THEN b + 1 ELSE Skip(s, b, {DIGITS[k] : k \in 1..10})
                 n == IntOf(Slice(s, b, e))
             IN  Good(Num(IF neg THEN 0 - n ELSE n), e)

RECURSIVE ParseValue(_, _), ParseMembers(_, _, _), ParseElements(_, _, _)

\* scan_once: the value that starts at position i
ParseValue(s, i) ==
    IF i > Len(s) THEN Bad
    ELSE CASE s[i] = "dq" -> ParseString(s, i)
           [] s[i] = "{" ->
                LET j == Skip(s, i + 1, JSON_WS)
                IN  IF j > Len(s) THEN Bad
                    ELSE IF s[j] = "}" THEN Good(Obj(Empty), j + 1)
                    ELSE ParseMembers(s, j, Empty)
           [] s[i] = "[" ->
                LET j == Skip(s, i + 1, JSON_WS)
                IN  IF j > Len(s) THEN Bad
                    ELSE IF s[j] = "]" THEN Good(Arr(<<>>), j + 1)
                    ELSE ParseElements(s, j, <<>>)
           [] At(s, i, <<"n","u","l","l">>) -> Good(None, i + 4)
           [] At(s, i, <<"t","r","u","e">>) -> Good(Bool(TRUE), i + 4)
           [] At(s, i, <<"f","a","l","s","e">>) -> Good(Bool(FALSE), i + 5)
           [] OTHER -> ParseNumber(s, i)

\* JSONObject: "key" : value pairs from position i; a later pair replaces an
\* earlier one of the same key
ParseMembers(s, i, acc) ==
    IF i > Len(s) \/ s[i] # "dq" THEN Bad
    ELSE LET k == ParseString(s, i)
         IN  IF ~k.ok THEN Bad
             ELSE LET c == Skip(s, k.next, JSON_WS)
                  IN  IF c > Len(s) \/ s[c] # ":" THEN Bad
                      ELSE LET v == ParseValue(s, Skip(s, c + 1, JSON_WS))
                           IN  IF ~v.ok THEN Bad
                               ELSE LET e == Skip(s, v.next, JSON_WS)
                                        acc2 == (k.val.str :> v.val) @@ acc
                                    IN  IF e > Len(s) THEN Bad
                                        ELSE IF s[e] = "}" THEN Good(Obj(acc2), e + 1)
                                        ELSE IF s[e] = ","
                                        THEN ParseMembers(s, Skip(s, e + 1, JSON_WS), acc2)
                                        ELSE Bad

\* JSONArray: the values from position i
ParseElements(s, i, acc) ==
    LET v == ParseValue(s, i)
    IN  IF ~v.ok THEN Bad
        ELSE LET e == Skip(s, v.next, JSON_WS)
                 acc2 == Append(acc, v.val)
             IN  IF e > Len(s) THEN Bad
                 ELSE IF s[e] = "]" THEN Good(Arr(acc2), e + 1)
                 ELSE IF s[e] = ","
                 THEN ParseElements(s, Skip(s, e + 1, JSON_WS), acc2)
                 ELSE Bad

\* json.loads(s): one value with white space around it; ok is FALSE where
\* json.loads raises JSONDecodeError
json_loads(s) ==
    LET v == ParseValue(s, Skip(s, 1, JSON_WS))
    IN  IF v.ok /\ Skip(s, v.next, JSON_WS) > Len(s) THEN v ELSE Bad

(***************************************************************************)
(* Bill Extractor: extract_json_from_response.                             *)
(***************************************************************************)
FENCE == <<"bq","bq","bq">>
JSON_TAG == <<"j","s","o","n">>

\* the first position >= i where w occurs in s; 0 if none
Find(s, i, w) ==
    IF \E p \in i..Len(s) : At(s, p, w)
    THEN CHOOSE p \in i..Len(s) : At(s, p, w) /\ \A q \in i..(p - 1) : ~At(s, q, w)
    ELSE 0

\* re.search(r"```(?:json)?\s*([\s\S]*?)\s*```", text): [found, group]. The
\* match starts at the first fence; json, then white space, are consumed
\* greedily; the lazy group ends where white space and the next fence follow.
FencedSearch(text) ==
    LET o == Find(text, 1, FENCE)
        a == IF o > 0 /\ At(text, o + 3, JSON_TAG) THEN o + 7 ELSE o + 3
        b == Skip(text, a, WHITESPACE)
        c == IF o = 0 THEN 0 ELSE Find(text, b, FENCE)
    IN  IF c = 0 THEN [found |-> FALSE, group |-> <<>>]
        ELSE LET e == CHOOSE p \in b..c :
                          /\ \A k \in p..(c - 1) : text[k] \in WHITESPACE
                          /\ \A q \in b..(p - 1) : \E k \in q..(c - 1) : text[k] \notin WHITESPACE
             IN  [found |-> TRUE, group |-> Slice(text, b, e)]

\* re.search(r"\{[\s\S]*\}", text): [found, group], from the first { to the last }
BraceSearch(text) ==
    LET o == Find(text, 1, <<"{">>)
        c == rfind(text, "}")
    IN  IF o = 0 \/ c < o THEN [found |-> FALSE, group |-> <<>>]
        ELSE [found |-> TRUE, group |-> SubSeq(text, o, c)]

\* the two attempts in the other order
extract_json_brace_first(text) ==
    LET m1 == BraceSearch(text)
        r1 == json_loads(m1.group)
        m2 == FencedSearch(text)
        r2 == json_loads(strip(m2.group))
    IN  IF m1.found /\ r1.ok THEN r1.val
        ELSE IF m2.found /\ r2.ok THEN r2.val
        ELSE None

\* lines 66-82
extract_json_from_response(text) ==
    LET m1 == FencedSearch(text)
        r1 == json_loads(strip(m1.group))
        m2 == BraceSearch(text)
        r2 == json_loads(m2.group)
    IN  IF m1.found /\ r1.ok THEN r1.val
        ELSE IF m2.found /\ r2.ok THEN r2.val
        ELSE None

(***************************************************************************)
(* Bill Extractor: the record of one image.                                *)
(***************************************************************************)
K_file == <<"_","f","i","l","e">>
K_raw == <<"_","r","a","w">>
K_error == <<"_","e","r","r","o","r">>

\* the two error tags, each Japanese character written by its reading
EMPTY_RESPONSE == <<"ku","no","ou","tou">>
JSON_PARSE_FAILED == <<"J","S","O","N"," ","kai","seki","shi","ppai">>
\* str(e) of the TypeError that out["_file"] = ... raises on a value that
\* is no dict
TYPE_ERROR == <<"T","y","p","e","E","r","r","o","r">>

RAW_SNIPPET == 200

\* raw[:n]
Prefix(s, n) == SubSeq(s, 1, IF Len(s) < n THEN Len(s) ELSE n)

\* lines 102-109, on response.text (<<>> for no response or no text) and on
\* what extract_json_from_response returned: the returned dict, or the
\* exception that leaves the function
BuildRow(name, text, out) ==
    IF text = <<>>
    THEN [raised |-> FALSE, branch |-> "empty",
          row |-> (K_file :> Str(name)) @@ (K_error :> Str(EMPTY_RESPONSE))]
    ELSE IF IsNone(out)
    THEN [raised |-> FALSE, branch |-> "unparsed",
          row |-> (K_file :> Str(name))
                  @@ (K_raw :> Str(Prefix(strip(text), RAW_SNIPPET)))
                  @@ (K_error :> Str(JSON_PARSE_FAILED))]
    ELSE IF IsDict(out)
    THEN [raised |-> FALSE, branch |-> "parsed",
          row |-> (K_file :> Str(name)) @@ out.obj]
    ELSE [raised |-> TRUE, branch |-> "exception", row |-> Empty]

\* lines 104-105: raw = response.text.strip(); out = extract_json_from_response(raw)
ParseText(text) ==
    IF text = <<>> THEN None ELSE extract_json_from_response(strip(text))

\* lines 101-109, after the response arrived
extract_from_response(name, text) == BuildRow(name, text, ParseText(text))

\* main(), lines 195-199: the row appended for one image, given what
\* extract_from_image_path returned or the message of what it raised
RowOf(name, r, msg) ==
    IF r.raised
    THEN (K_file :> Str(name)) @@ (K_error :> Str(msg))
    ELSE r.row

(***************************************************************************)
(* The responses of the model: up to MaxSegments segments, each a fenced   *)
(* block, a bare text or a piece of prose.                                 *)
(***************************************************************************)
MaxSegments == 2
LongProse == 201   \* characters of the long prose segment, over RAW_SNIPPET

T_obj_a == <<"{","dq","a","dq",":","1","}">>
T_obj_err == <<"{","dq","_","e","r","r","o","r","dq",":","dq","x","dq",",","dq","a","dq",":","1","}">>
T_obj_file == <<"{","dq","_","f","i","l","e","dq",":","dq","z","dq",",","dq","_","r","a","w","dq",":","dq","r","dq","}">>
T_arr == <<"[","1","]">>
T_null == <<"n","u","l","l">>
T_open == <<"{">>
T_close == <<"}">>
T_word == <<"x">>
T_cut == <<"{","dq","a","dq",":">>
T_long == [i \in 1..LongProse |-> "x"]

\* what json.loads gives for the contents that are JSON
V_obj_a == Obj(<<"a">> :> Num(1))
V_obj_err == Obj((K_error :> Str(<<"x">>)) @@ (<<"a">> :> Num(1)))
V_obj_file == Obj((K_file :> Str(<<"z">>)) @@ (K_raw :> Str(<<"r">>)))
V_arr == Arr(<<Num(1)>>)

Contents ==
    { [text |-> T_obj_a, json |-> TRUE, val |-> V_obj_a],
      [text |-> T_obj_err, json |-> TRUE, val |-> V_obj_err],
      [text |-> T_obj_file, json |-> TRUE, val |-> V_obj_file],
      [text |-> T_arr, json |-> TRUE, val |-> V_arr],
      [text |-> T_null, json |-> TRUE, val |-> None],
      [text |-> T_open, json |-> FALSE, val |-> None],
      [text |-> T_word, json |-> FALSE, val |-> None],
      [text |-> T_cut, json |-> FALSE, val |-> None] }

Segments ==
    [kind : {"block"}, tag : {<<>>, JSON_TAG}, content : Contents]
    \cup [kind : {"bare"}, tag : {<<>>}, content : Contents]
    \cup [kind : {"prose"}, tag : {<<>>},
          content : {[text |-> c, json |-> FALSE, val |-> None] :
                        c \in {<<" ">>, <<"nl">>, T_close, FENCE, T_long}}]

\* the characters of a segment
Render(g) ==
    IF g.kind = "block"
    THEN FENCE \o g.tag \o <<"nl">> \o g.content.text \o <<"nl">> \o FENCE
    ELSE g.content.text

RECURSIVE RenderAll(_)
RenderAll(gs) == IF gs = <<>> THEN <<>> ELSE Render(Head(gs)) \o RenderAll(Tail(gs))

SegmentLists == UNION {[1..n -> Segments] : n \in 0..MaxSegments}

\* the file the response is about
N_bill == <<"b","i","l","l",".","j","p","g">>

ParseInit ==
    /\ \E gs \in SegmentLists :
          parse = [pc |-> "submitted", segs |-> gs, text |-> <<>>, parsed |-> None,
                   row |-> Empty, branch |-> "none"]
    /\ bill = [pc |-> "unused"]
    /\ home_is_kana = FALSE /\ desktop_exists = FALSE /\ desktop = Empty
    /\ vault = "absent" /\ folders = [d \in Days |-> NoFolder] /\ today = 1
    /\ pc = "unused" /\ ret = -1 /\ archive_day = 0 /\ pending = {}
    /\ moved_count = 0 /\ run = 1 /\ log = {} /\ start = Empty
    /\ first = [pc |-> "none"] /\ dropped = {}

\* line 101: response = model.generate_content(...)
Respond ==
    /\ parse.pc = "submitted"
    /\ parse' = [parse EXCEPT !.pc = "responded", !.text = RenderAll(parse.segs)]
    /\ UNCHANGED <<archVars, bill>>

\* lines 102-105: the empty-response test, raw = text.strip(), the parser
Extract ==
    /\ parse.pc = "responded"
    /\ parse' = [parse EXCEPT !.pc = "extracted", !.parsed = ParseText(parse.text)]
    /\ UNCHANGED <<archVars, bill>>

\* lines 102-109 and main()'s lines 196-199: the row appended to results
Record ==
    /\ parse.pc = "extracted"
    /\ LET r == BuildRow(N_bill, parse.text, parse.parsed)
       IN  parse' = [parse EXCEPT !.pc = "recorded", !.branch = r.branch,
                                  !.row = RowOf(N_bill, r, TYPE_ERROR)]
    /\ UNCHANGED <<archVars, bill>>

ParseNext ==
    \/ Respond
    \/ Extract
    \/ Record
SpecParse == ParseInit /\ [][ParseNext]_vars

(***************************************************************************)
(* Bill Extractor: main().                                                 *)
(***************************************************************************)
MaxBillEntries == 3   \* entries in the target folder

BILL_IMAGE_EXTENSIONS ==
    { <<".","p","n","g">>, <<".","j","p","g">>, <<".","j","p","e","g">>,
      <<".","h","e","i","c">>, <<".","h","e","i","f">> }

\* p.is_file() and p.suffix.lower() in IMAGE_EXTENSIONS
IsBillImage(files, name) ==
    is_file(files, name) /\ lower(suffix(name)) \in BILL_IMAGE_EXTENSIONS

\* ord(c), for the characters of the model's file names
Ord(c) ==
    CASE c = " " -> 32
      [] c = "." -> 46
      [] c = "_" -> 95
      [] IsDigit(c) -> 48 + DigitValue(c)
      [] \E i \in 1..26 : UPPER[i] = c -> 64 + (CHOOSE i \in 1..26 : UPPER[i] = c)
      [] \E i \in 1..26 : LOWER[i] = c -> 96 + (CHOOSE i \in 1..26 : LOWER[i] = c)

\* a < b of two str: by code point at the first difference, a prefix first
NameLess(a, b) ==
    \E k \in 1..(Len(b)) :
        /\ \A j \in 1..(k - 1) : j <= Len(a) /\ a[j] = b[j]
        /\ (k > Len(a) \/ Ord(a[k]) < Ord(b[k]))

\* list.sort(key=lambda p: p.name): x goes after the elements not greater
RECURSIVE Insert(_, _)
Insert(x, sorted) ==
    IF sorted = <<>> THEN <<x>>
    ELSE IF NameLess(x, Head(sorted)) THEN <<x>> \o sorted
    ELSE <<Head(sorted)>> \o Insert(x, Tail(sorted))

RECURSIVE InsertionSort(_)
InsertionSort(seq) ==
    IF seq = <<>> THEN <<>>
    ELSE Insert(seq[Len(seq)], InsertionSort(SubSeq(seq, 1, Len(seq) - 1)))

Unsorted(seq) == seq
\* line 175
SortByName(seq) == InsertionSort(seq)

\* the comprehension of lines 171-174 over the order iterdir() yields
RECURSIVE SelectImages(_, _)
SelectImages(files, order) ==
    IF order = <<>> THEN <<>>
    ELSE (IF IsBillImage(files, Head(order)) THEN <<Head(order)>> ELSE <<>>)
         \o SelectImages(files, Tail(order))

\* the orders in which iterdir() may yield the entries
Orders(S) ==
    {f \in [1..Cardinality(S) -> S] : \A i, j \in 1..Cardinality(S) : f[i] = f[j] => i = j}

\* not args.api_key: None and the empty string are both missing
IsUnset(key) == key = "unset"
IsMissing(key) == key \in {"unset", "empty"}

N_Z_heic == <<"Z",".","h","e","i","c">>
N_c_JPEG == <<"c",".","J","P","E","G">>

BillUniverse ==
    (N_a_png :> File("bill", N_a_png)) @@ (N_a_1_png :> File("bill", N_a_1_png))
    @@ (N_Z_heic :> File("bill", N_Z_heic)) @@ (N_c_JPEG :> File("bill", N_c_JPEG))
    @@ (N_n_txt :> File("bill", N_n_txt)) @@ (N_d_png :> Dir("bill", N_d_png))

\* str(e) of what load_image_as_png_bytes and generate_content raise
DECODE_ERROR == <<"c","a","n","n","o","t"," ","i","d","e","n","t","i","f","y">>
API_ERROR == <<"4","2","9">>

\* the response texts of the model
BillResponses ==
    { Render([kind |-> "block", tag |-> JSON_TAG,
              content |-> [text |-> T_obj_a, json |-> TRUE, val |-> V_obj_a]]),
      T_obj_file,
      Render([kind |-> "block", tag |-> <<>>,
              content |-> [text |-> T_arr, json |-> TRUE, val |-> V_arr]]),
      T_word }

\* what happens to one image: the decoder raises, the API call raises, the
\* response has no text, or it has one
ImageOutcomes ==
    {[kind |-> k, text |-> <<>>] : k \in {"decode_error", "api_error", "empty"}}
    \cup {[kind |-> "text", text |-> t] : t \in BillResponses}

BillInit ==
    /\ \E key \in {"unset", "empty", "set"}, lib, lm, isdir, mok, outp \in BOOLEAN,
          S \in SUBSET DOMAIN BillUniverse :
          /\ Cardinality(S) <= MaxBillEntries
          /\ ~isdir => S = {}
          /\ bill = [pc |-> "start", api_key |-> key, genai |-> lib, list_models |-> lm,
                     folder_is_dir |-> isdir, files |-> Restrict(BillUniverse, S),
                     model_ok |-> mok, output |-> outp,
                     image_paths |-> <<>>, idx |-> 0, results |-> <<>>,
                     submitted |-> <<>>, stdout |-> <<>>, listed |-> FALSE,
                     out_file |-> [written |-> FALSE], ret |-> -1]
    /\ parse = [pc |-> "unused"]
    /\ home_is_kana = FALSE /\ desktop_exists = FALSE /\ desktop = Empty
    /\ vault = "absent" /\ folders = [d \in Days |-> NoFolder] /\ today = 1
    /\ pc = "unused" /\ ret = -1 /\ archive_day = 0 /\ pending = {}
    /\ moved_count = 0 /\ run = 1 /\ log = {} /\ start = Empty
    /\ first = [pc |-> "none"] /\ dropped = {}

Exit(code) == [bill EXCEPT !.pc = "done", !.ret = code]

\* lines 143-145
CheckKey ==
    /\ bill.pc = "start"
    /\ bill' = IF IsMissing(bill.api_key) THEN Exit(1) ELSE [bill EXCEPT !.pc = "lib"]
    /\ UNCHANGED <<archVars, parse>>

\* lines 147-151
CheckLib ==
    /\ bill.pc = "lib"
    /\ bill' = IF ~bill.genai THEN Exit(1) ELSE [bill EXCEPT !.pc = "mode"]
    /\ UNCHANGED <<archVars, parse>>

\* lines 154-164: --list-models; the listing may raise before anything is
\* printed or while the models are printed
ListModels ==
    /\ bill.pc = "mode"
    /\ bill.list_models
    /\ \E outcome \in {"listed", "raised_before", "raised_during"} :
          bill' = CASE outcome = "listed" ->
                         [Exit(0) EXCEPT !.stdout = Append(@, [kind |-> "models"]),
                                         !.listed = TRUE]
                    [] outcome = "raised_before" -> Exit(1)
                    [] outcome = "raised_during" ->
                         [Exit(1) EXCEPT !.stdout = Append(@, [kind |-> "models"])]
    /\ UNCHANGED <<archVars, parse>>

\* lines 154, 166-169
CheckFolder ==
    /\ bill.pc = "mode"
    /\ ~bill.list_models
    /\ bill' = IF ~bill.folder_is_dir THEN Exit(1) ELSE [bill EXCEPT !.pc = "scan"]
    /\ UNCHANGED <<archVars, parse>>

\* lines 171-179
ScanFolder ==
    /\ bill.pc = "scan"
    /\ \E order \in Orders(DOMAIN bill.files) :
          LET paths == SortByName(SelectImages(bill.files, order))
          IN  bill' = IF paths = <<>>
                      THEN [Exit(1) EXCEPT !.image_paths = paths]
                      ELSE [bill EXCEPT !.pc = "model", !.image_paths = paths]
    /\ UNCHANGED <<archVars, parse>>

\* lines 181-191
MakeModel ==
    /\ bill.pc = "model"
    /\ bill' = IF ~bill.model_ok THEN Exit(1)
               ELSE [bill EXCEPT !.pc = "loop", !.idx = 1]
    /\ UNCHANGED <<archVars, parse>>

\* lines 194-199: one iteration of the loop
ProcessImage ==
    /\ bill.pc = "loop"
    /\ bill.idx <= Len(bill.image_paths)
    /\ LET name == bill.image_paths[bill.idx]
       IN  \E o \in ImageOutcomes :
             LET r == CASE o.kind = "decode_error" ->
                             [raised |-> TRUE, branch |-> "exception", row |-> Empty]
                        [] o.kind = "api_error" ->
                             [raised |-> TRUE, branch |-> "exception", row |-> Empty]
                        [] OTHER -> extract_from_response(name, o.text)
                 msg == CASE o.kind = "decode_error" -> DECODE_ERROR
                          [] o.kind = "api_error" -> API_ERROR
                          [] OTHER -> TYPE_ERROR
             IN  bill' = [bill EXCEPT
                            !.idx = @ + 1,
                            !.submitted = IF o.kind = "decode_error" THEN @
                                          ELSE Append(@, name),
                            !.results = Append(@, RowOf(name, r, msg))]
    /\ UNCHANGED <<archVars, parse>>

\* lines 201-202
PrintResults ==
    /\ bill.pc = "loop"
    /\ bill.idx > Len(bill.image_paths)
    /\ bill' = [bill EXCEPT !.pc = "write",
                            !.stdout = Append(@, [kind |-> "records", rows |-> bill.results])]
    /\ UNCHANGED <<archVars, parse>>

\* lines 204-208: write_text may raise out of main()
WriteOutput ==
    /\ bill.pc = "write"
    /\ IF bill.output
       THEN \E written \in BOOLEAN :
              bill' = IF written
                      THEN [Exit(0) EXCEPT !.out_file = [written |-> TRUE,
                                                         rows |-> bill.results]]
                      ELSE [bill EXCEPT !.pc = "raised"]
       ELSE bill' = Exit(0)
    /\ UNCHANGED <<archVars, parse>>

BillNext ==
    \/ CheckKey
    \/ CheckLib
    \/ ListModels
    \/ CheckFolder
    \/ ScanFolder
    \/ MakeModel
    \/ ProcessImage
    \/ PrintResults
    \/ WriteOutput
SpecBill == BillInit /\ [][BillNext]_vars

(***************************************************************************)
(* Bill Extractor: the claims.                                             *)
(***************************************************************************)
\* the image files of the target folder, stated on the names themselves
BillImagesOf(files) ==
    {n \in DOMAIN files :
        /\ files[n].kind = "file"
        /\ \E e \in BILL_IMAGE_EXTENSIONS :
              /\ Len(n) > Len(e)
              /\ lower(SubSeq(n, Len(n) - Len(e) + 1, Len(n))) = e}

\* sorted() of the model's file names, as Python orders them
AscendingNames == <<N_Z_heic, N_a_png, N_a_1_png, N_c_JPEG, N_d_png, N_n_txt>>
Rank(n) == CHOOSE k \in 1..Len(AscendingNames) : AscendingNames[k] = n

\* the record array was printed
RecordsPrinted == \E k \in 1..Len(bill.stdout) : bill.stdout[k].kind = "records"

\* C6: once the preconditions passed, results holds one record per image file
\* of the folder, in ascending order of file name, whatever each image's
\* outcome was: the i-th record's _file is the i-th image name.
C6_OneRecordPerImage ==
    /\ bill.pc \in {"loop", "write", "done", "raised"} /\ bill.idx >= 1 =>
          /\ Len(bill.results) = bill.idx - 1
          /\ {bill.image_paths[i] : i \in 1..Len(bill.image_paths)} = BillImagesOf(bill.files)
          /\ Len(bill.image_paths) = Cardinality(BillImagesOf(bill.files))
          /\ \A i, j \in 1..Len(bill.image_paths) :
                i < j => Rank(bill.image_paths[i]) < Rank(bill.image_paths[j])
          /\ \A i \in 1..Len(bill.results) :
                /\ K_file \in DOMAIN bill.results[i]
                /\ bill.results[i][K_file] = Str(bill.image_paths[i])
    /\ RecordsPrinted =>
          /\ Len(bill.results) = Cardinality(BillImagesOf(bill.files))
          /\ bill.stdout = <<[kind |-> "records", rows |-> bill.results]>>
    /\ bill.out_file.written => bill.out_file.rows = bill.results

C6_Witness ==
    /\ bill.pc = "done" /\ bill.ret = 0
    /\ Len(bill.results) = 3
    /\ bill.results[1][K_file] = Str(N_Z_heic)
    /\ K_error \in DOMAIN bill.results[1]
    /\ K_error \notin DOMAIN bill.results[2]
    /\ K_raw \in DOMAIN bill.results[3]

\* the fatal preconditions of the claim
MissingCredential == bill.api_key # "set"
MissingLibrary == ~bill.genai
BadFolder == ~bill.folder_is_dir
NoImages == BillImagesOf(bill.files) = {}
BadModel == ~bill.model_ok

NoOutput ==
    /\ bill.submitted = <<>>
    /\ ~RecordsPrinted
    /\ ~bill.out_file.written

ExitZeroOnlyWithOutput ==
    (bill.pc = "done" /\ bill.ret = 0) => (RecordsPrinted \/ bill.listed)

\* C9 as stated: each of the five failed preconditions ends main() with status 1
\* and no output; status 0 only with the record array printed or the models listed.
C9_Original ==
    /\ (bill.pc \in {"done", "raised"}
        /\ (MissingCredential \/ MissingLibrary \/ BadFolder \/ NoImages \/ BadModel))
       => (bill.pc = "done" /\ bill.ret = 1 /\ NoOutput)
    /\ ExitZeroOnlyWithOutput

\* C9 amended: a missing credential or library ends main() with status 1 and no
\* output in every mode; a missing folder, a folder without images or an
\* unresolvable model name does so when --list-models is not given (with it,
\* they are never looked at); status 0 only with the record array printed or
\* the models listed.
C9_Amended ==
    /\ (bill.pc \in {"done", "raised"}
        /\ (\/ MissingCredential
            \/ MissingLibrary
            \/ (~bill.list_models /\ (BadFolder \/ NoImages \/ BadModel))))
       => (bill.pc = "done" /\ bill.ret = 1 /\ NoOutput /\ bill.stdout = <<>>)
    /\ (bill.pc \in {"done", "raised"} /\ bill.list_models) => NoOutput
    /\ ExitZeroOnlyWithOutput
    /\ bill.pc # "done" => bill.ret = -1

C9_Witness ==
    /\ bill.pc = "done" /\ bill.ret = 1
    /\ bill.api_key = "set" /\ bill.genai /\ ~bill.list_models /\ bill.folder_is_dir
    /\ ~NoImages /\ BadModel /\ bill.output

\* the keys of a record that are not _file, _error or _raw
DataKeys(row) == DOMAIN row \ {K_file, K_error, K_raw}

\* C7: every record holds either the fields parsed from the response and no
\* _error key, or an _error key (with _file and perhaps _raw) and no parsed field.
C7_ExactlyOne ==
    parse.pc = "recorded" =>
        /\ K_file \in DOMAIN parse.row
        /\ IF parse.branch = "parsed"
           THEN K_error \notin DOMAIN parse.row
           ELSE K_error \in DOMAIN parse.row /\ DataKeys(parse.row) = {}

\* the first fenced block of a text, read off the characters: from the first
\* fence to the next one, without the json tag and the white space around
FirstFence(text) ==
    IF \E p \in 1..Len(text) : At(text, p, FENCE)
    THEN CHOOSE p \in 1..Len(text) :
            At(text, p, FENCE) /\ \A q \in 1..(p - 1) : ~At(text, q, FENCE)
    ELSE 0
NextFence(text) ==
    LET o == FirstFence(text)
    IN  IF o > 0 /\ \E p \in (o + 3)..Len(text) : At(text, p, FENCE)
        THEN CHOOSE p \in (o + 3)..Len(text) :
                At(text, p, FENCE) /\ \A q \in (o + 3)..(p - 1) : ~At(text, q, FENCE)
        ELSE 0
HasFirstBlock(text) == NextFence(text) > 0
FirstBlockText(text) ==
    LET inner == Slice(text, FirstFence(text) + 3, NextFence(text))
    IN  strip(IF At(inner, 1, JSON_TAG) THEN SubSeq(inner, 5, Len(inner)) ELSE inner)
FirstBlockJson(text) == json_loads(FirstBlockText(text))

\* the text from the first { to the last }
HasBraces(text) ==
    \E i, j \in 1..Len(text) : i < j /\ text[i] = "{" /\ text[j] = "}"
BraceText(text) ==
    LET i == CHOOSE i \in 1..Len(text) : text[i] = "{" /\ \A k \in 1..(i - 1) : text[k] # "{"
        j == CHOOSE j \in 1..Len(text) : text[j] = "}" /\ \A k \in (j + 1)..Len(text) : text[k] # "}"
    IN  SubSeq(text, i, j)

\* the segments of the response that are fenced blocks; every fence of the
\* response belongs to one of them
BlockSegments == {k \in 1..Len(parse.segs) : parse.segs[k].kind = "block"}
OnlyBlockFences == \A k \in 1..Len(parse.segs) : parse.segs[k].content.text # FENCE
JsonBlocks == {k \in BlockSegments : parse.segs[k].content.json}

\* the parser falls back to the braces when there is no first block or it does
\* not parse, and returns nothing when the braces do not parse either
FallbackRule ==
    LET raw == strip(parse.text)
    IN  (parse.text # <<>> /\ ~(HasFirstBlock(raw) /\ FirstBlockJson(raw).ok)) =>
            IF HasBraces(raw) /\ json_loads(BraceText(raw)).ok
            THEN parse.parsed = json_loads(BraceText(raw)).val
            ELSE parse.parsed = None

\* a response that yields no object gives the error record: _file, the tag
\* and at most RAW_SNIPPET characters of the stripped response
ErrorRecordRule ==
    (parse.pc = "recorded" /\ parse.text # <<>> /\ parse.parsed = None) =>
        LET raw == strip(parse.text)
        IN  /\ DOMAIN parse.row = {K_file, K_raw, K_error}
            /\ parse.row[K_file] = Str(N_bill)
            /\ parse.row[K_error] = Str(JSON_PARSE_FAILED)
            /\ Len(parse.row[K_raw].str) <= 200
            /\ Len(parse.row[K_raw].str) = (IF Len(raw) < 200 THEN Len(raw) ELSE 200)
            /\ \A k \in 1..Len(parse.row[K_raw].str) : parse.row[K_raw].str[k] = raw[k]

\* C8 as stated: for every response that contains a fenced JSON block the parser
\* returns that block's object; otherwise it falls back to the braces; when
\* both fail the caller emits the error record.
C8_Original ==
    parse.pc \in {"extracted", "recorded"} =>
        /\ (OnlyBlockFences /\ JsonBlocks # {}) =>
              \E k \in JsonBlocks : parse.parsed = parse.segs[k].content.val
        /\ FallbackRule
        /\ ErrorRecordRule

\* C8 amended: for every response whose first fenced block (first fence to the
\* next) holds JSON the parser returns that block's value, which is no object
\* for null; otherwise it falls back to the braces; when it returns no object
\* the caller emits the error record.
C8_Amended ==
    parse.pc \in {"extracted", "recorded"} =>
        /\ LET raw == strip(parse.text)
           IN  (HasFirstBlock(raw) /\ FirstBlockJson(raw).ok) =>
                   parse.parsed = FirstBlockJson(raw).val
        /\ (OnlyBlockFences /\ BlockSegments # {}) =>
              LET k == CHOOSE k \in BlockSegments : \A m \in BlockSegments : k <= m
              IN  parse.segs[k].content.json => parse.parsed = parse.segs[k].content.val
        /\ FallbackRule
        /\ ErrorRecordRule

C8_Witness ==
    /\ parse.pc = "recorded"
    /\ Len(parse.segs) = 2
    /\ parse.segs[1].kind = "block" /\ parse.segs[1].content.text = T_cut
    /\ parse.segs[2].content.text = T_long
    /\ parse.branch = "unparsed"
    /\ Len(parse.row[K_raw].str) = 200
====
